---- MODULE Spec2Model ----
(***************************************************************************)
(* Model of src/main.rs of lazear/summarizer: read, is_delimiter,          *)
(* freq_analysis, analyze and run.                                         *)
(*                                                                         *)
(* A text (Rust &str / String) is a sequence of one-character strings.     *)
(* A std::io::Result<T> is a record [ok |-> TRUE, val |-> v] or            *)
(* [ok |-> FALSE, err |-> e].                                              *)
(* A HashMap<&str, usize> is a function from its set of keys to counts.    *)
(***************************************************************************)
EXTENDS Naturals, Sequences, FiniteSets

VARIABLES
    files,       \* the two files: path -> what read(path) returns
    summary,     \* run's argument summary
    take,        \* run's argument take
    pc,          \* where the invocation of run stands
    exclude,     \* run's local exclude (the exclusion file's contents)
    text,        \* run's local text (the body file's contents)
    paragraphs,  \* analyze's local paragraphs
    words,       \* analyze's local words
    scores,      \* analyze's local scores, which analyze returns
    top,         \* run's local top
    result,      \* <<r>> once run has returned r, <<>> before
    prev         \* <<v>> where v is what the previous analyze returned

vars == << files, summary, take, pc, exclude, text, paragraphs, words, scores,
           top, result, prev >>

(***************************************************************************)
(* Bounds of the model.                                                    *)
(***************************************************************************)
MaxAtoms == 3      \* a body text is the concatenation of at most MaxAtoms atoms
MaxExcl  == 1      \* an exclusion text has at most MaxExcl characters
MaxTake  == 2      \* run is called with take in 0..MaxTake
MaxAtomsAgain == 2 \* the body texts of the runs that call run twice

(***************************************************************************)
(* Input alphabets.                                                        *)
(***************************************************************************)
LF == "\n"
CR == "\r"

\* The pieces body texts are built from: two words, two delimiters and the
\* two paragraph separators.
BodyAtoms == { <<"a">>, <<"b">>, <<" ">>, <<".">>, << LF, LF >>, << CR, LF, CR, LF >> }

\* The characters exclusion texts are built from.
ExclChars == { "a", " " }

\* The separators Summary::Pattern is called with.
Patterns == { <<>>, <<"a">> }

\* The failures File::open / read_to_string report.
IoErrors == { "NotFound", "PermissionDenied" }

RECURSIVE Flatten(_)
Flatten(ss) == IF ss = <<>> THEN <<>> ELSE Head(ss) \o Flatten(Tail(ss))

SeqsUpTo(S, n) == UNION { [1..k -> S] : k \in 0..n }

BodyTexts == { Flatten(ss) : ss \in SeqsUpTo(BodyAtoms, MaxAtoms) }
BodyTextsAgain == { Flatten(ss) : ss \in SeqsUpTo(BodyAtoms, MaxAtomsAgain) }
ExclTexts == SeqsUpTo(ExclChars, MaxExcl)

Ok(v)  == [ok |-> TRUE, val |-> v]
Err(e) == [ok |-> FALSE, err |-> e]

\* pub enum Summary { Paragraph(Paragraph), Sentence, Pattern(String) }
Summary == { [kind |-> "ParagraphUnix"], [kind |-> "ParagraphWindows"],
             [kind |-> "Sentence"] }
           \cup { [kind |-> "Pattern", p |-> p] : p \in Patterns }

(***************************************************************************)
(* The characters is_delimiter accepts (lines 39-46).                      *)
(***************************************************************************)
Delimiters == { ".", "!", "?", ",", ";", ")", "(", "{", "}", "[", "]", ":",
                "\"", "'", CR, LF, "\t", " " }

\* The characters the closure of Summary::Sentence accepts (line 70).
SentenceEnds == { ".", "?", "!" }

(***************************************************************************)
(* str::split with a char predicate: n matching characters give n+1        *)
(* pieces, empty ones included.  D is the set of characters the predicate  *)
(* accepts.                                                                *)
(***************************************************************************)
RECURSIVE SplitChars(_, _)
SplitChars(s, D) ==
    IF \A i \in 1..Len(s) : s[i] \notin D
    THEN << s >>
    ELSE LET i == CHOOSE i \in 1..Len(s) :
                     /\ s[i] \in D
                     /\ \A j \in 1..(i - 1) : s[j] \notin D
         IN  << SubSeq(s, 1, i - 1) >> \o SplitChars(SubSeq(s, i + 1, Len(s)), D)

(***************************************************************************)
(* str::split with a &str pattern: leftmost non-overlapping matches; the   *)
(* empty pattern matches at every character boundary, the two ends         *)
(* included.                                                               *)
(***************************************************************************)
MatchAt(s, p, i) ==
    /\ i + Len(p) - 1 <= Len(s)
    /\ SubSeq(s, i, i + Len(p) - 1) = p

RECURSIVE SplitNonEmpty(_, _)
SplitNonEmpty(s, p) ==
    IF \A i \in 1..Len(s) : ~MatchAt(s, p, i)
    THEN << s >>
    ELSE LET i == CHOOSE i \in 1..Len(s) :
                     /\ MatchAt(s, p, i)
                     /\ \A j \in 1..(i - 1) : ~MatchAt(s, p, j)
         IN  << SubSeq(s, 1, i - 1) >>
             \o SplitNonEmpty(SubSeq(s, i + Len(p), Len(s)), p)

SplitStr(s, p) ==
    IF p = <<>>
    THEN << <<>> >> \o [i \in 1..Len(s) |-> << s[i] >>] \o << <<>> >>
    ELSE SplitNonEmpty(s, p)

\* text.split(is_delimiter) (lines 73, 77, 84)
Tokens(s) == SplitChars(s, Delimiters)

\* The match on summary (lines 67-72).
SplitIntoUnits(t, mode) ==
    CASE mode.kind = "ParagraphWindows" -> SplitStr(t, << CR, LF, CR, LF >>)
      [] mode.kind = "ParagraphUnix"    -> SplitStr(t, << LF, LF >>)
      [] mode.kind = "Sentence"         -> SplitChars(t, SentenceEnds)
      [] mode.kind = "Pattern"          -> SplitStr(t, mode.p)

(***************************************************************************)
(* HashMap<&str, usize>.                                                   *)
(***************************************************************************)
EmptyMap == [k \in {} |-> 0]

\* Mutant of HashMapNew: the map of the previous invocation is kept.
HashMapLeftover == words

\* HashMap::new() (line 50)
HashMapNew == EmptyMap

\* map.entry(key).or_insert(default): the map afterwards (lines 52, 84)
or_insert(map, key, default) ==
    IF key \in DOMAIN map
    THEN map
    ELSE [k \in DOMAIN map \cup {key} |-> IF k = key THEN default ELSE map[k]]

\* Mutant of remove: the key stays in the map.
removeNothing(map, key) == map

\* map.remove(key) (line 78): removing an absent key changes nothing
remove(map, key) == [k \in DOMAIN map \ {key} |-> map[k]]

\* The loop of freq_analysis (lines 51-54).
RECURSIVE CountWords(_, _)
CountWords(map, wordlist) ==
    IF wordlist = <<>>
    THEN map
    ELSE LET word == Head(wordlist)
             m    == or_insert(map, word, 0)
         IN  CountWords([m EXCEPT ![word] = @ + 1], Tail(wordlist))

\* freq_analysis (lines 49-56)
freq_analysis(wordlist) == CountWords(HashMapNew, wordlist)

\* for c in exclude.split(is_delimiter) { words.remove(c); } (lines 77-79)
RECURSIVE RemoveAll(_, _)
RemoveAll(map, cs) ==
    IF cs = <<>> THEN map ELSE RemoveAll(remove(map, Head(cs)), Tail(cs))

\* Mutant of ScoreFold: the fold counts the word, as the loop of freq_analysis
\* does.
RECURSIVE ScoreFoldCounting(_, _, _)
ScoreFoldCounting(map, toks, acc) ==
    IF toks = <<>>
    THEN [words |-> map, score |-> acc]
    ELSE LET x  == Head(toks)
             m  == or_insert(map, x, 0)
             m2 == [m EXCEPT ![x] = @ + 1]
         IN  ScoreFoldCounting(m2, Tail(toks), acc + m[x])

\* paragraph.split(is_delimiter).fold(0, |acc, x| acc + *words.entry(x).or_insert(0))
\* (line 84): the map afterwards and the sum.
RECURSIVE ScoreFold(_, _, _)
ScoreFold(map, toks, acc) ==
    IF toks = <<>>
    THEN [words |-> map, score |-> acc]
    ELSE LET x == Head(toks)
             m == or_insert(map, x, 0)
         IN  ScoreFold(m, Tail(toks), acc + m[x])

\* Mutant of Digest: the index counts from one.
DigestIndexFromOne(paragraph, score, index) ==
    [text |-> paragraph, score |-> score, index |-> index + 1]

\* Digest { text: paragraph, score: score, index: index } (line 85)
Digest(paragraph, score, index) ==
    [text |-> paragraph, score |-> score, index |-> index]

(***************************************************************************)
(* slice::sort_by is a stable sort: x is inserted after every element the  *)
(* comparator does not order after it.                                     *)
(***************************************************************************)
\* Mutant of ScoreCmpGreater: equal scores are ordered too, so that the sort
\* reverses ties.
ScoreCmpGreaterOrEqual(a, b) == b.score >= a.score

\* |a, b| b.score.cmp(&a.score) is Greater (line 89)
ScoreCmpGreater(a, b) == b.score > a.score

\* |a, b| a.index.cmp(&b.index) is Greater (line 107)
IndexCmpGreater(a, b) == a.index > b.index

InsertByScore(s, x) ==
    LET keep == { i \in 1..Len(s) : ~ScoreCmpGreater(s[i], x) }
        k    == IF keep = {} THEN 0 ELSE CHOOSE i \in keep : \A j \in keep : j <= i
    IN  SubSeq(s, 1, k) \o << x >> \o SubSeq(s, k + 1, Len(s))

RECURSIVE SortByScoreFrom(_, _)
SortByScoreFrom(sorted, rest) ==
    IF rest = <<>> THEN sorted
    ELSE SortByScoreFrom(InsertByScore(sorted, Head(rest)), Tail(rest))

\* scores.sort_by(|a, b| b.score.cmp(&a.score)) (line 89)
SortByScore(s) == SortByScoreFrom(<<>>, s)

InsertByIndex(s, x) ==
    LET keep == { i \in 1..Len(s) : ~IndexCmpGreater(s[i], x) }
        k    == IF keep = {} THEN 0 ELSE CHOOSE i \in keep : \A j \in keep : j <= i
    IN  SubSeq(s, 1, k) \o << x >> \o SubSeq(s, k + 1, Len(s))

RECURSIVE SortByIndexFrom(_, _)
SortByIndexFrom(sorted, rest) ==
    IF rest = <<>> THEN sorted
    ELSE SortByIndexFrom(InsertByIndex(sorted, Head(rest)), Tail(rest))

\* Mutant of SortByIndex: top is left in rank order.
SortByIndexMissing(s) == s

\* top.sort_by(|a, b| a.index.cmp(&b.index)) (line 107)
SortByIndex(s) == SortByIndexFrom(<<>>, s)

\* pg.into_iter().take(take).collect() (line 106)
Take(s, n) == SubSeq(s, 1, IF n < Len(s) THEN n ELSE Len(s))

\* Mutant of Join: every string is followed by the separator.
RECURSIVE JoinTrailing(_, _)
JoinTrailing(strs, sep) ==
    IF strs = <<>> THEN <<>>
    ELSE Head(strs) \o sep \o JoinTrailing(Tail(strs), sep)

\* [..].join(sep) (line 108)
RECURSIVE Join(_, _)
Join(strs, sep) ==
    IF strs = <<>> THEN <<>>
    ELSE IF Len(strs) = 1 THEN Head(strs)
    ELSE Head(strs) \o sep \o Join(Tail(strs), sep)

\* top.into_iter().map(|p| p.text).collect::<Vec<&str>>().join("\n\n") (line 108)
JoinTexts(ds) == Join([i \in 1..Len(ds) |-> ds[i].text], << LF, LF >>)

(***************************************************************************)
(* read (lines 31-36): the contents of the file, or the failure of         *)
(* File::open / read_to_string.                                            *)
(***************************************************************************)
read(path) == files[path]

\* Mutant of RunFailure: the failure of the body text's read comes first.
RunFailureBodyFirst(e, t) == IF ~t.ok THEN t ELSE e

\* The arms of the match of run that return a failure (lines 110-112).
RunFailure(e, t) ==
    IF t.ok THEN e          \* (e, Ok(_)) => e
    ELSE IF e.ok THEN t     \* (Ok(_), e) => e
    ELSE e                  \* (e, _) => e

(***************************************************************************)
(* The state machine.                                                      *)
(***************************************************************************)
FileStates(contents) == { Ok(c) : c \in contents } \cup { Err(e) : e \in IoErrors }

InitWith(bodies) ==
    /\ files \in { [exclude_path |-> e, text_path |-> t] :
                      e \in FileStates(ExclTexts), t \in FileStates(bodies) }
    /\ summary = [kind |-> "Sentence"]
    /\ take = 0
    /\ pc = "idle"
    /\ exclude = <<>>
    /\ text = <<>>
    /\ paragraphs = <<>>
    /\ words = EmptyMap
    /\ scores = <<>>
    /\ top = <<>>
    /\ result = <<>>
    /\ prev = <<>>

Init == InitWith(BodyTexts)

InitAgain == InitWith(BodyTextsAgain)

\* run is entered with (s, t): the two reads and the match (lines 102-104,
\* 110-112).
RunEnter(s, t) ==
    LET e == read("exclude_path")
        b == read("text_path")
    IN  /\ summary' = s
        /\ take' = t
        /\ IF e.ok /\ b.ok
           THEN /\ exclude' = e.val
                /\ text' = b.val
                /\ result' = <<>>
                /\ pc' = "analyze"
           ELSE /\ result' = << RunFailure(e, b) >>
                /\ pc' = "done"
                /\ UNCHANGED << exclude, text >>
        /\ UNCHANGED << files, paragraphs, words, scores, top >>

\* The first call of run.
Run ==
    /\ pc = "idle"
    /\ \E s \in Summary, t \in 0..MaxTake : RunEnter(s, t)
    /\ UNCHANGED prev

\* run is called again with the same arguments, on the same files.
RunAgain ==
    /\ pc = "done"
    /\ prev' = IF result[1].ok THEN << scores >> ELSE prev
    /\ RunEnter(summary, take)

\* analyze: the split, the word count and the empty scores (lines 67-74).
AnalyzeSplit ==
    /\ pc = "analyze"
    /\ paragraphs' = SplitIntoUnits(text, summary)
    /\ words' = freq_analysis(Tokens(text))
    /\ scores' = <<>>
    /\ pc' = "exclude"
    /\ UNCHANGED << files, summary, take, exclude, text, top, result, prev >>

\* analyze: the excluded words leave the map (lines 76-79).
RemoveExcluded ==
    /\ pc = "exclude"
    /\ words' = RemoveAll(words, Tokens(exclude))
    /\ pc' = "score"
    /\ UNCHANGED << files, summary, take, exclude, text, paragraphs, scores, top,
                    result, prev >>

\* analyze: one turn of the loop over the paragraphs (lines 83-86).
ScoreParagraph ==
    /\ pc = "score"
    /\ Len(scores) < Len(paragraphs)
    /\ LET index     == Len(scores)
           paragraph == paragraphs[index + 1]
           f         == ScoreFold(words, Tokens(paragraph), 0)
       IN  /\ words' = f.words
           /\ scores' = Append(scores, Digest(paragraph, f.score, index))
    /\ UNCHANGED << files, summary, take, pc, exclude, text, paragraphs, top,
                    result, prev >>

\* analyze: the sort and the return (lines 88-90).
SortScores ==
    /\ pc = "score"
    /\ Len(scores) = Len(paragraphs)
    /\ scores' = SortByScore(scores)
    /\ pc' = "select"
    /\ UNCHANGED << files, summary, take, exclude, text, paragraphs, words, top,
                    result, prev >>

\* run: the first take digests, back in text order, joined (lines 105-108).
Select ==
    /\ pc = "select"
    /\ top' = SortByIndex(Take(scores, take))
    /\ result' = << Ok(JoinTexts(top')) >>
    /\ pc' = "done"
    /\ UNCHANGED << files, summary, take, exclude, text, paragraphs, words, scores,
                    prev >>

Next ==
    \/ Run
    \/ AnalyzeSplit
    \/ RemoveExcluded
    \/ ScoreParagraph
    \/ SortScores
    \/ Select

Spec == Init /\ [][Next]_vars

\* The same program, with run called again after it has returned.
NextAgain ==
    \/ Next
    \/ RunAgain

SpecAgain == InitAgain /\ [][NextAgain]_vars

(***************************************************************************)
(* What the claims are stated with.                                        *)
(***************************************************************************)
Range(s) == { s[i] : i \in 1..Len(s) }

RECURSIVE SumSeq(_)
SumSeq(ns) == IF ns = <<>> THEN 0 ELSE Head(ns) + SumSeq(Tail(ns))

\* Both reads of run succeed.
BothReadable == files.exclude_path.ok /\ files.text_path.ok

\* run has returned.
RunReturned == pc = "done"

\* run has returned Ok.
RunReturnedOk == pc = "done" /\ result[1].ok

\* analyze has returned, and scores is what it returned.
AnalyzeReturned == pc = "select" \/ RunReturnedOk

\* The exclusion has been done: the scoring loop is running or over.
ExclusionDone == pc = "score" \/ AnalyzeReturned

\* The units of the body text, split with the mode's separator.
Units == SplitIntoUnits(text, summary)

\* How often t occurs in the sequence toks.
CountIn(toks, t) == Cardinality({ i \in 1..Len(toks) : toks[i] = t })

\* How often the token t occurs in the body text.
Occurrences(t) == CountIn(Tokens(text), t)

\* The tokens of the exclusion text.
ExcludedTokens == Range(Tokens(exclude))

\* The count of t after the exclusion, 0 for a token that has none, given
\* the tokens of the body text and the set of excluded tokens.
PostExclusionCount(bodyToks, excluded, t) ==
    IF t \in excluded THEN 0 ELSE CountIn(bodyToks, t)

\* The count of t in the map words, 0 for a token that is no key of it.
Lookup(t) == IF t \in DOMAIN words THEN words[t] ELSE 0

\* w occurs in s as a substring.
Contains(s, w) ==
    \E i \in 1..(Len(s) + 1) :
        /\ i + Len(w) <= Len(s) + 1
        /\ SubSeq(s, i, i + Len(w) - 1) = w

\* The units joined by "\n\n", built from the last one backwards.
RECURSIVE JoinedBack(_)
JoinedBack(us) ==
    IF Len(us) = 0 THEN <<>>
    ELSE IF Len(us) = 1 THEN us[1]
    ELSE JoinedBack(SubSeq(us, 1, Len(us) - 1)) \o << LF, LF >> \o us[Len(us)]

(***************************************************************************)
(* C1: analyze returns exactly one Digest per unit of the split of the     *)
(* body text with the mode's separator; the index fields are exactly       *)
(* 0..count-1, none twice, and each Digest's text is the unit at its       *)
(* index.                                                                  *)
(***************************************************************************)
C1_OneDigestPerUnit ==
    AnalyzeReturned =>
        LET units == Units
        IN  /\ Len(scores) = Len(units)
            /\ { scores[i].index : i \in 1..Len(scores) } = 0..(Len(units) - 1)
            /\ \A i, j \in 1..Len(scores) : scores[i].index = scores[j].index => i = j
            /\ \A i \in 1..Len(scores) :
                   /\ scores[i].index < Len(units)
                   /\ scores[i].text = units[scores[i].index + 1]

\* analyze has returned three units or more, ranked in another order than
\* the text's.
C1_Witness ==
    /\ AnalyzeReturned
    /\ Len(scores) >= 3
    /\ scores[1].index # 0

(***************************************************************************)
(* C2: the units listed in the string run returns appear in strictly       *)
(* increasing original-index order, whatever their rank by score.          *)
(***************************************************************************)
C2_OutputInTextOrder ==
    RunReturnedOk =>
        /\ \A i \in 1..Len(top) : \A j \in 1..Len(top) :
               i < j => top[i].index < top[j].index
        /\ LET units == Units
           IN  result[1].val = JoinedBack([i \in 1..Len(top) |-> units[top[i].index + 1]])

\* run has returned two units or more that analyze had ranked against the
\* text's order.
C2_Witness ==
    /\ RunReturnedOk
    /\ Len(top) >= 2
    /\ scores[1].index > scores[2].index

(***************************************************************************)
(* C3: run with take = 0 returns the empty string; run with take >=        *)
(* unitCount returns the texts of all units in original order joined by    *)
(* "\n\n" with no trailing separator; a take larger than the number of     *)
(* units is never an error.                                                *)
(***************************************************************************)
C3_Clamping ==
    (RunReturned /\ BothReadable) =>
        /\ result[1].ok
        /\ take = 0 => result[1].val = <<>>
        /\ take >= Len(Units) => result[1].val = JoinedBack(Units)

\* run has returned with a take no smaller than the number of units, two or
\* more, which analyze had ranked against the text's order.
C3_Witness ==
    /\ RunReturnedOk
    /\ take >= Len(Units)
    /\ Len(Units) >= 2
    /\ scores[1].index # 0
    /\ result[1].val # <<>>

(***************************************************************************)
(* C4: a word W that is a token of the exclusion text contributes 0 to     *)
(* every unit's score (the score is the one the unit gets with its W       *)
(* tokens ignored), while the unit's returned text still holds W verbatim. *)
(***************************************************************************)
C4_ExcludedWordScoresNothing ==
    AnalyzeReturned =>
        LET units    == Units
            excluded == ExcludedTokens
        IN  \A n \in 1..Len(scores) :
                LET d    == scores[n]
                    toks == Tokens(d.text)
                IN  /\ d.text = units[d.index + 1]
                    /\ \A W \in excluded :
                           /\ d.score = SumSeq([i \in 1..Len(toks) |->
                                            IF toks[i] = W THEN 0 ELSE Lookup(toks[i])])
                           /\ W \in Range(toks) => Contains(d.text, W)

\* A unit has been scored that holds an excluded word the body text counts,
\* next to a word that gives it a score.
C4_Witness ==
    /\ AnalyzeReturned
    /\ \E W \in ExcludedTokens : \E n \in 1..Len(scores) :
           /\ W # <<>>
           /\ Occurrences(W) > 0
           /\ W \in Range(Tokens(scores[n].text))
           /\ \E V \in Range(Tokens(scores[n].text)) :
                  V # <<>> /\ V \notin ExcludedTokens
           /\ scores[n].score > 0

(***************************************************************************)
(* C6: if reading the exclusion source fails, run returns that failure and *)
(* no output string, whether or not the body source is readable; if only   *)
(* the body's read fails, run returns that failure; analyze is never       *)
(* invoked after a failed read, and run returns Ok only when both reads    *)
(* succeed.                                                                *)
(***************************************************************************)
C6_ReadFailureReturned ==
    /\ pc \in { "analyze", "exclude", "score", "select" } => BothReadable
    /\ RunReturned =>
           LET e == files.exclude_path
               t == files.text_path
               r == result[1]
           IN  /\ ~e.ok => (~r.ok /\ r.err = e.err)
               /\ (e.ok /\ ~t.ok) => (~r.ok /\ r.err = t.err)
               /\ r.ok => (e.ok /\ t.ok)
               /\ ~r.ok => (paragraphs = <<>> /\ scores = <<>> /\ words = EmptyMap)

\* run has returned with both reads failed, each with its own failure.
C6_Witness ==
    /\ RunReturned
    /\ ~files.exclude_path.ok
    /\ ~files.text_path.ok
    /\ files.exclude_path.err # files.text_path.err

(***************************************************************************)
(* C8: what analyze returns is sorted in non-increasing score order, units *)
(* of equal score in ascending original-index order; so every unit in      *)
(* run's output has a score no smaller than that of every unit left out,   *)
(* and a tie at the cut-off is won by the unit that occurs earlier in the  *)
(* text.                                                                   *)
(***************************************************************************)
C8_RankedByScoreThenIndex ==
    /\ AnalyzeReturned =>
           \A i \in 1..Len(scores) : \A j \in 1..Len(scores) :
               i < j => \/ scores[i].score > scores[j].score
                        \/ /\ scores[i].score = scores[j].score
                           /\ scores[i].index < scores[j].index
    /\ RunReturnedOk =>
           \A i \in 1..Len(top) : \A j \in 1..Len(scores) :
               (\A k \in 1..Len(top) : top[k].index # scores[j].index) =>
                   \/ top[i].score > scores[j].score
                   \/ /\ top[i].score = scores[j].score
                      /\ top[i].index < scores[j].index

\* run has returned some units and left out others, with a tie at the cut-off,
\* after analyze had ranked the units against the text's order.
C8_Witness ==
    /\ RunReturnedOk
    /\ take >= 1
    /\ take < Len(scores)
    /\ scores[take].score = scores[take + 1].score
    /\ scores[1].index # 0
    /\ scores[1].score > scores[Len(scores)].score

(***************************************************************************)
(* C10: throughout the scoring loop of analyze, insert-on-miss only ever   *)
(* adds keys with value 0 to the frequency table and never changes the     *)
(* count of a key already present after exclusion; hence each unit's score *)
(* is the sum, over the tokens of that unit, of the post-exclusion count   *)
(* looked up with default 0, whichever units were scored before it.        *)
(***************************************************************************)
C10_LoopKeepsCounts ==
    pc = "score" =>
        /\ \A k \in DOMAIN words : k \in DOMAIN words' /\ words'[k] = words[k]
        /\ \A k \in DOMAIN words' : k \notin DOMAIN words => words'[k] = 0

C10_ScoreIsSumOfCounts ==
    ExclusionDone =>
        LET bodyToks == Tokens(text)
            excluded == ExcludedTokens
        IN  /\ \A k \in DOMAIN words :
                   words[k] = PostExclusionCount(bodyToks, excluded, k)
            /\ \A n \in 1..Len(scores) :
                   LET toks == Tokens(scores[n].text)
                   IN  scores[n].score =
                           SumSeq([i \in 1..Len(toks) |->
                                     PostExclusionCount(bodyToks, excluded, toks[i])])

C10_InsertOnMissIsUnobservable ==
    [][C10_LoopKeepsCounts]_vars /\ []C10_ScoreIsSumOfCounts

\* The loop has added a key to the table and has scored a later unit from a
\* count of the table.
C10_Witness ==
    /\ pc = "score"
    /\ Len(scores) >= 2
    /\ \E k \in DOMAIN words : k # <<>> /\ Occurrences(k) = 0
    /\ scores[Len(scores)].score > 0

(***************************************************************************)
(* C7: calling analyze twice with identical (exclusion text, body text,    *)
(* mode) yields identical sequences of (text, score, index) in the same    *)
(* order; nothing an earlier invocation leaves behind changes the result.  *)
(***************************************************************************)
C7_SecondCallReturnsTheSame ==
    (Len(prev) = 1 /\ AnalyzeReturned) => scores = prev[1]

\* analyze has returned a second time, the first invocation having left a
\* table with counts and with keys the scoring loop added.
C7_Witness ==
    /\ Len(prev) = 1
    /\ RunReturnedOk
    /\ Len(scores) >= 2
    /\ scores[1].score > 0
    /\ scores[1].index # 0
    /\ \E k \in DOMAIN words : Occurrences(k) = 0

(***************************************************************************)
(* C9: empty tokens (from adjacent delimiters, from a delimiter at the     *)
(* start or end of the text, or from a unit boundary next to a delimiter)  *)
(* contribute 0 to every unit's score, for every body text and every       *)
(* exclusion text.  Stated for the body texts that are not empty, whose    *)
(* empty tokens all come from delimiters.                                  *)
(***************************************************************************)
C9_EmptyTokensScoreNothing ==
    (ExclusionDone /\ text # <<>>) =>
        \A n \in 1..Len(scores) :
            LET toks == Tokens(scores[n].text)
            IN  scores[n].score =
                    SumSeq([i \in 1..Len(toks) |->
                              IF toks[i] = <<>> THEN 0 ELSE Lookup(toks[i])])

(***************************************************************************)
(* C5: for an empty body text, with any mode and any exclusion text,       *)
(* analyze returns exactly one unit whose text is the empty string, whose  *)
(* index is 0 and whose score is 0, and run with take = 1 returns the      *)
(* empty string.                                                           *)
(***************************************************************************)
C5_EmptyBodyOneEmptyUnit ==
    (AnalyzeReturned /\ text = <<>>) =>
        /\ scores = << [text |-> <<>>, score |-> 0, index |-> 0] >>
        /\ (RunReturnedOk /\ take = 1) => result[1].val = <<>>

====
